---- MODULE Spec2Model ----
(***************************************************************************)
(* Model of the live voice session of src/components/Generator.tsx:        *)
(* the playback scheduler (playAudioChunk / clearAudioQueue), the inbound  *)
(* message handler (onmessage) with its awaited audio decode, the          *)
(* transcript reconciler (updateCurrentAiTranscript, finalizeAiTranscript, *)
(* handleUserTranscript) and the demo turn counter.                        *)
(*                                                                         *)
(* Time is one real-time axis in milliseconds: the output AudioContext's   *)
(* currentTime and Date.now() are both readings of `now`.                  *)
(* Text is a sequence of one-character strings.                            *)
(***************************************************************************)
EXTENDS Integers, Sequences, FiniteSets, TLC

VARIABLES
  now,           \* real time: ctx.currentTime and Date.now()
  nextPlayTime,  \* nextPlayTimeRef.current
  audioQueue,    \* audioQueueRef.current: sequence of source-node ids
  sources,       \* every AudioBufferSourceNode created so far, in creation order
  transcript,    \* the transcript state (sequence of TranscriptItem)
  pending,       \* onmessage invocations suspended at `await playAudioChunk`
  nmsgs,         \* number of messages delivered to onmessage so far
  flushes,       \* number of clearAudioQueue calls so far
  interrupts,    \* arrival numbers of the messages whose `interrupted` was handled
  effects,       \* log of the transcript calls, in the order they were applied
  turn,          \* bookkeeping of the model turn in progress
  isDemoMode,    \* isDemoModeRef.current
  turnCount,     \* turnCountRef.current
  storedCount,   \* localStorage 'nsd_demo_count'
  lockTime,      \* localStorage 'nsd_demo_lock_time' (-1: absent)
  lockTimers,    \* due times of the pending lockout timeouts
  clean,         \* one call of cleanTranscript: its argument and its result
  showTranscript, \* the SYSTEM LOG window is open
  fenced,        \* the model has emitted the delimiter in its current turn
  replays,       \* one record per replayTranscriptAudio call past its checks
  app,           \* App's viewState and isDemoMode, and when the view was set
  isConnected,
  isMicOn,
  isMicOnRef,
  micStreamRef,  \* 0 (null) or the startSession call that acquired the stream
  inputSourceRef, \* 0 or the call whose onopen created the source node
  processorRef,  \* 0 or the call whose onopen created the processor node
  sessionRef,    \* 0 or the call whose session is the handle
  sess,          \* one record per startSession call that got past its checks
  videoMode,
  videoStreamRef, \* a video stream is held
  videoInterval, \* the frame capture interval is running
  videoPending,  \* mode of a toggleVideo call that awaits its stream
  videoAttach,   \* the video effect: its attach timeout ("TIMER") or its
                 \* play() promise ("PLAY") is pending, or neither ("NONE")
  ticks,         \* log of the capture ticks: isMicOn at each onaudioprocess call
  sent,          \* log of the payloads sent on a channel
  lastOp,        \* the last session handler that ran was a start, a stop, ...
  afterStop      \* stopSession ran since the last start request

liveVars == <<now, nextPlayTime, audioQueue, sources, transcript, pending,
              nmsgs, flushes, interrupts, effects, turn, isDemoMode, turnCount,
              storedCount, lockTime, lockTimers>>

sideVars == <<clean, showTranscript, fenced, replays, app>>

\* viewState === 'APP': the Generator and its controls are rendered
Mounted == app.view = "APP"


videoVars == <<videoMode, videoStreamRef, videoInterval, videoPending,
               videoAttach>>

sessRefs == <<isConnected, micStreamRef, inputSourceRef, processorRef,
              sessionRef, sess, videoVars>>

micVars == <<isMicOn, isMicOnRef>>

\* the session side but for the log of sent payloads
sessVars == <<sessRefs, micVars, ticks, lastOp, afterStop>>

vars == <<liveVars, sideVars, sessVars, sent>>

schedVars == <<nextPlayTime, audioQueue, sources, flushes>>
demoVars  == <<isDemoMode, turnCount, storedCount, lockTime, lockTimers>>

(***************************************************************************)
(* Bounds                                                                  *)
(***************************************************************************)
MaxMsgs == 3
MaxTime == 3000
MaxAudio == 2
MaxCleanLen == 4
MaxSessions == 2
MaxTicks == 3
MaxTexts == 2
MaxReplays == 1
MaxFrames == 2

TickSteps == {1000, 2000}
Durations == {1000, 2000}

(***************************************************************************)
(* Program constants                                                       *)
(***************************************************************************)
USER_WINDOW_MS == 3000
DEMO_LIMIT == 10
LOCKOUT_GRACE_MS == 15000
LOCK_WINDOW_MS == 3600000

(***************************************************************************)
(* Helpers                                                                 *)
(***************************************************************************)
Max(a, b) == IF a >= b THEN a ELSE b

Last(s) == s[Len(s)]

Front(s) == SubSeq(s, 1, Len(s) - 1)

NoText == <<>>

NoChunk == 0

Space == " "

Chars == <<"a", "b", "c", "d", "e", "f", "g", "h">>

\* the delimiter character of the thought fence (U+00BB)
Delim == ">>"

\* the text carried by the n-th message: one letter that names the message
Letter(n) == <<Chars[n]>>

Blank == <<Space>>

RECURSIVE TrimStart(_)
TrimStart(s) ==
  IF s # <<>> /\ Head(s) = Space THEN TrimStart(Tail(s)) ELSE s

RECURSIVE TrimEnd(_)
TrimEnd(s) ==
  IF s # <<>> /\ Last(s) = Space THEN TrimEnd(Front(s)) ELSE s

\* String.prototype.trim
Trim(s) == TrimEnd(TrimStart(s))

\* text.includes(d)
Includes(s, d) == \E k \in DOMAIN s : s[k] = d

\* text.split(d), one character at a time: parts are the parts closed so
\* far, cur is the part being read
RECURSIVE SplitFrom(_, _, _, _)
SplitFrom(s, d, parts, cur) ==
  IF s = <<>> THEN Append(parts, cur)
  ELSE IF Head(s) = d
       THEN SplitFrom(Tail(s), d, Append(parts, cur), <<>>)
       ELSE SplitFrom(Tail(s), d, parts, Append(cur, Head(s)))

Split(s, d) == SplitFrom(s, d, <<>>, <<>>)

PickPart_afterFirst(parts) == parts[2]

\* parts[parts.length - 1]
PickPart(parts) == parts[Len(parts)]

cleanTranscript(text) ==
  IF text = <<>> THEN <<>>
  ELSE IF Includes(text, Delim)
       THEN Trim(PickPart(Split(text, Delim)))
       ELSE <<>>

(***************************************************************************)
(* Inbound messages (LiveServerMessage): the fields onmessage reads.       *)
(* seq is the arrival number; an audio chunk is named by the seq of the    *)
(* message that carries it.                                                *)
(***************************************************************************)
Msg(n, au, tx, ot, it, ir, tc) ==
  [seq |-> n, audio |-> au, text |-> tx, outText |-> ot, inText |-> it,
   interrupted |-> ir, turnComplete |-> tc]

\* the messages the remote session may deliver as its n-th message: one
\* field each, the way the live session streams them
Shapes(n) ==
  { Msg(n, TRUE,  NoText, NoText, NoText, FALSE, FALSE),      \* audio part
    Msg(n, FALSE, Letter(n), NoText, NoText, FALSE, FALSE),   \* text part
    Msg(n, FALSE, NoText, Blank, NoText, FALSE, FALSE),       \* whitespace-only output transcription
    Msg(n, FALSE, NoText, NoText, Letter(n), FALSE, FALSE),   \* input (user) transcription
    Msg(n, FALSE, NoText, NoText, NoText, TRUE, FALSE),       \* interrupted
    Msg(n, FALSE, NoText, NoText, NoText, FALSE, TRUE) }      \* turn complete

(***************************************************************************)
(* Playback scheduler                                                      *)
(***************************************************************************)
\* the scheduler's state as one value, so that one handler can apply
\* several scheduler calls in sequence
SchedState == [npt |-> nextPlayTime, queue |-> audioQueue,
               sources |-> sources, flushes |-> flushes]

PlayStart_noCursor(currentTime, npt) == currentTime

\* Math.max(currentTime, nextPlayTimeRef.current)
PlayStart(currentTime, npt) == Max(currentTime, npt)

NextCursor_noDuration(start, duration) == start

\* nextPlayTimeRef.current = start + audioBuffer.duration
NextCursor(start, duration) == start + duration

\* playAudioChunk after its decode resolved with a buffer of `duration`
playAudioChunk(S, chunk, duration, currentTime) ==
  LET start == PlayStart(currentTime, S.npt)
      node  == [chunk |-> chunk, start |-> start, duration |-> duration,
                readAt |-> currentTime, epoch |-> S.flushes, stopped |-> FALSE]
  IN [S EXCEPT !.sources = Append(@, node),
               !.queue   = Append(@, Len(S.sources) + 1),
               !.npt     = NextCursor(start, duration)]

InQueue(q, i) == \E k \in DOMAIN q : q[k] = i

FlushCursor_zero(currentTime) == 0

\* nextPlayTimeRef.current = outputAudioContextRef.current?.currentTime || 0
FlushCursor(currentTime) == currentTime

FlushQueue_keep(queue) == queue

\* audioQueueRef.current = []
FlushQueue(queue) == <<>>

clearAudioQueue(S, currentTime) ==
  [S EXCEPT !.sources = [i \in DOMAIN S.sources |->
                           IF InQueue(S.queue, i)
                           THEN [S.sources[i] EXCEPT !.stopped = TRUE]
                           ELSE S.sources[i]],
            !.queue   = FlushQueue(@),
            !.npt     = FlushCursor(currentTime),
            !.flushes = @ + 1]

(***************************************************************************)
(* Transcript reconciler                                                   *)
(***************************************************************************)
CanAppendAi_ignoreComplete(last) == last.source = "AI"

\* last.source === 'AI' && !last.isComplete
CanAppendAi(last) == last.source = "AI" /\ ~last.isComplete

UserWindowOpen_inclusive(last, t) ==
  last.source = "USER" /\ t - last.timestamp <= USER_WINDOW_MS

\* last.source === 'USER' && (Date.now() - last.timestamp < 3000)
UserWindowOpen(last, t) ==
  last.source = "USER" /\ t - last.timestamp < USER_WINDOW_MS

AppendText_cleaned(old, text) == cleanTranscript(old \o text)

\* updated.text += text
AppendText(old, text) == old \o text

\* hasChunks: the audioChunks field is defined (AI items); USER items are
\* created without the field
updateCurrentAiTranscript(prev, text, audioChunk, t) ==
  IF (text = NoText \/ Trim(text) = <<>>) /\ audioChunk = NoChunk THEN prev
  ELSE IF prev # <<>> /\ CanAppendAi(Last(prev))
       THEN Append(Front(prev),
              [Last(prev) EXCEPT
                 !.text = IF text # NoText THEN AppendText(@, text) ELSE @,
                 !.audioChunks = IF audioChunk # NoChunk
                                 THEN Append(@, audioChunk) ELSE @,
                 !.hasChunks = IF audioChunk # NoChunk THEN TRUE ELSE @])
       ELSE Append(prev,
              [id |-> t, source |-> "AI", text |-> text,
               audioChunks |-> IF audioChunk # NoChunk
                               THEN <<audioChunk>> ELSE <<>>,
               hasChunks |-> TRUE, timestamp |-> t, isComplete |-> FALSE])

finalizeAiTranscript_all(prev) ==
  [i \in DOMAIN prev |->
     IF prev[i].source = "AI" THEN [prev[i] EXCEPT !.isComplete = TRUE]
     ELSE prev[i]]

\* last.source === 'AI' ? [...prev.slice(0, -1), {...last, isComplete: true}]
\* : prev
finalizeAiTranscript(prev) ==
  IF prev # <<>> /\ Last(prev).source = "AI"
  THEN Append(Front(prev), [Last(prev) EXCEPT !.isComplete = TRUE])
  ELSE prev

handleUserTranscript_refreshed(prev, text, t) ==
  IF prev # <<>> /\ UserWindowOpen(Last(prev), t)
  THEN Append(Front(prev),
         [Last(prev) EXCEPT !.text = @ \o text, !.timestamp = t])
  ELSE Append(prev,
         [id |-> t, source |-> "USER", text |-> text, audioChunks |-> <<>>,
          hasChunks |-> FALSE, timestamp |-> t, isComplete |-> TRUE])

\* { ...last, text: last.text + text }: the merged item keeps its timestamp
handleUserTranscript(prev, text, t) ==
  IF prev # <<>> /\ UserWindowOpen(Last(prev), t)
  THEN Append(Front(prev), [Last(prev) EXCEPT !.text = @ \o text])
  ELSE Append(prev,
         [id |-> t, source |-> "USER", text |-> text, audioChunks |-> <<>>,
          hasChunks |-> FALSE, timestamp |-> t, isComplete |-> TRUE])

(***************************************************************************)
(* Demo turn counter (incrementDemoCount, handleLockoutSequence), as one   *)
(* value [count, stored, lock, timers]                                     *)
(***************************************************************************)
NoLock == -1

DemoState == [count |-> turnCount, stored |-> storedCount,
              lock |-> lockTime, timers |-> lockTimers]

handleLockoutSequence_noGrace(D, t) ==
  [D EXCEPT !.lock = t, !.timers = Append(@, t)]

\* localStorage 'nsd_demo_lock_time' = Date.now(); setTimeout(..., 15000)
handleLockoutSequence(D, t) ==
  [D EXCEPT !.lock = t, !.timers = Append(@, t + LOCKOUT_GRACE_MS)]

incrementDemoCount(D, demo, t) ==
  IF ~demo THEN D
  ELSE LET newCount == D.count + 1
           D1 == [D EXCEPT !.count = newCount, !.stored = newCount]
       IN IF newCount >= DEMO_LIMIT THEN handleLockoutSequence(D1, t) ELSE D1

DemoExhausted_never(demo, count) == FALSE

\* isDemoModeRef.current && turnCountRef.current >= 10
DemoExhausted(demo, count) == demo /\ count >= DEMO_LIMIT

(***************************************************************************)
(* onmessage                                                               *)
(***************************************************************************)
HasAiText(m) == m.text # NoText \/ m.outText # NoText

\* a message that is only a partial AI text event
PureAiText(m) ==
  /\ HasAiText(m)
  /\ ~m.audio /\ m.inText = NoText /\ ~m.interrupted /\ ~m.turnComplete

\* bookkeeping when a message is delivered: the AI texts of the turn in
\* arrival order, and whether the turn so far consists of AI text events only
TurnOnDelivery(tn, m) ==
  IF PureAiText(m)
  THEN [tn EXCEPT !.texts = @ \o m.text \o m.outText]
  ELSE IF m.turnComplete /\ ~m.audio /\ ~HasAiText(m) /\ m.inText = NoText
            /\ ~m.interrupted
       THEN tn
       ELSE [tn EXCEPT !.clean = FALSE]

\* the transcript after lines 446-457 of the handler
RestTranscript(m, T, t) ==
  LET T1 == IF m.text # NoText
            THEN updateCurrentAiTranscript(T, m.text, NoChunk, t) ELSE T
      T2 == IF m.outText # NoText
            THEN updateCurrentAiTranscript(T1, m.outText, NoChunk, t) ELSE T1
      T3 == IF m.inText # NoText
            THEN handleUserTranscript(T2, m.inText, t) ELSE T2
      T4 == IF m.interrupted THEN finalizeAiTranscript(T3) ELSE T3
  IN IF m.turnComplete THEN finalizeAiTranscript(T4) ELSE T4

Eff(m, k) == [msg |-> m.seq, kind |-> k]

\* a call updateCurrentAiTranscript(text)
TextEff(m, text) == [msg |-> m.seq, kind |-> "aiText", text |-> text]

\* the transcript calls of lines 446-457, in call order
RestEffects(m) ==
  (IF m.text # NoText THEN <<TextEff(m, m.text)>> ELSE <<>>)
  \o (IF m.outText # NoText THEN <<TextEff(m, m.outText)>> ELSE <<>>)
  \o (IF m.inText # NoText THEN <<Eff(m, "user")>> ELSE <<>>)
  \o (IF m.interrupted THEN <<Eff(m, "finalize")>> ELSE <<>>)
  \o (IF m.turnComplete THEN <<Eff(m, "finalize")>> ELSE <<>>)

\* the session whose channel delivers the inbound messages: the latest one
\* that is open, 0 when there is none
Receiving ==
  LET open == {k \in DOMAIN sess : sess[k].phase = "open" /\ sess[k].resolved}
  IN IF open = {} THEN 0 ELSE CHOOSE k \in open : \A j \in open : j <= k

\* a payload sent on the channel of call k; tick is the capture tick of an
\* audio frame; afterStop: stopSession had run on that call before
Payload(kind, k, tick) ==
  [kind |-> kind, session |-> k, tick |-> tick, afterStop |-> sess[k].stopped]

\* sessionPromise.then(sess => sess.sendRealtimeInput({content: [SYSTEM ...]}))
\* after incrementDemoCount left the demo state D
ContextSend(m, D) ==
  IF m.turnComplete /\ isDemoMode /\ D.count < DEMO_LIMIT /\ Receiving # 0
  THEN <<Payload("context", Receiving, 0)>>
  ELSE <<>>

\* the handler from line 446 on, run without a suspension point, from
\* scheduler state S, transcript T, effect log E, turn bookkeeping tn and the
\* set pend of invocations still suspended
OnMessageRest(m, S, T, E, tn, pend) ==
  LET S1 == IF m.interrupted THEN clearAudioQueue(S, now) ELSE S
      T1 == RestTranscript(m, T, now)
      D1 == IF m.turnComplete /\ isDemoMode
            THEN incrementDemoCount(DemoState, isDemoMode, now) ELSE DemoState
  IN /\ nextPlayTime' = S1.npt
     /\ audioQueue' = S1.queue
     /\ sources' = S1.sources
     /\ flushes' = S1.flushes
     /\ transcript' = T1
     /\ effects' = E \o RestEffects(m)
     /\ interrupts' = IF m.interrupted THEN interrupts \cup {m.seq}
                      ELSE interrupts
     /\ turn' = IF m.turnComplete
                THEN [no |-> tn.no + 1, clean |-> pend = {}, texts |-> <<>>,
                      startLen |-> Len(T1)]
                ELSE tn
     /\ turnCount' = D1.count
     /\ storedCount' = D1.stored
     /\ lockTime' = D1.lock
     /\ lockTimers' = D1.timers
     /\ UNCHANGED isDemoMode
     /\ sent' = sent \o ContextSend(m, D1)

\* number of audio chunks delivered so far: those still decoding and those
\* whose handler has gone on
NAudio ==
  Cardinality(pending)
  + Cardinality({k \in DOMAIN effects : effects[k].kind = "aiAudio"})

\* a message is delivered: the handler runs up to `await playAudioChunk`
\* when the message carries audio, and to its end otherwise
Deliver(m) ==
  /\ nmsgs < MaxMsgs
  /\ m.audio => NAudio < MaxAudio
  /\ nmsgs' = nmsgs + 1
  /\ Receiving # 0
  /\ UNCHANGED <<now, clean, showTranscript, replays, app, sessVars>>
  /\ IF m.audio
     THEN /\ pending' = pending \cup {m}
          /\ turn' = TurnOnDelivery(turn, m)
          /\ UNCHANGED <<schedVars, transcript, interrupts, effects, demoVars,
                         sent>>
     ELSE /\ pending' = pending
          /\ OnMessageRest(m, SchedState, transcript, effects,
                           TurnOnDelivery(turn, m), pending)

OnMessage(m) ==
  /\ m \in Shapes(nmsgs + 1)
  /\ Deliver(m)
  /\ UNCHANGED fenced

\* decodeAudioData is a non-blocking asynchronous operation: while it is in
\* flight the invocation stays suspended and other events are handled
DecodeInFlight(m) == m \in pending

\* the decode of m's chunk resolves with a buffer of duration d: the chunk
\* is scheduled, appended to the AI item, and the handler runs to its end
DecodeDone(m, d) ==
  /\ DecodeInFlight(m)
  /\ d \in Durations
  /\ pending' = pending \ {m}
  /\ UNCHANGED <<now, nmsgs, sideVars, sessVars>>
  /\ OnMessageRest(m, playAudioChunk(SchedState, m.seq, d, now),
                   updateCurrentAiTranscript(transcript, NoText, m.seq, now),
                   Append(effects, Eff(m, "aiAudio")), turn, pending \ {m})

FailedPlay_reset(S) == [S EXCEPT !.npt = 0, !.queue = <<>>]

\* catch (e) { console.error(e) }: playAudioChunk returns with nothing
\* scheduled
FailedPlay(S) == S

\* the decode throws: playAudioChunk logs and returns, the handler goes on
DecodeFailed(m) ==
  /\ DecodeInFlight(m)
  /\ pending' = pending \ {m}
  /\ UNCHANGED <<now, nmsgs, sideVars, sessVars>>
  /\ OnMessageRest(m, FailedPlay(SchedState),
                   updateCurrentAiTranscript(transcript, NoText, m.seq, now),
                   Append(effects, Eff(m, "aiAudio")), turn, pending \ {m})

\* source.onended: a node that played to its end leaves the queue
Ended(i) ==
  /\ InQueue(audioQueue, i)
  /\ now >= sources[i].start + sources[i].duration
  /\ audioQueue' = SelectSeq(audioQueue, LAMBDA x : x # i)
  /\ UNCHANGED <<now, nextPlayTime, sources, transcript, pending, nmsgs,
                 flushes, interrupts, effects, turn, demoVars, sideVars, sessVars, sent>>

\* real time passes
Tick(d) ==
  /\ d \in TickSteps
  /\ now + d <= MaxTime
  /\ now' = now + d
  /\ UNCHANGED <<schedVars, transcript, pending, nmsgs, interrupts, effects,
                 turn, demoVars, sideVars, sessVars, sent>>

StoredCounts == {0, 9}

\* no call of cleanTranscript under way
CleanIdle == [in |-> <<>>, out |-> <<>>, done |-> FALSE]

InitLive ==
  /\ now = 0
  /\ nextPlayTime = 0
  /\ audioQueue = <<>>
  /\ sources = <<>>
  /\ transcript = <<>>
  /\ pending = {}
  /\ nmsgs = 0
  /\ flushes = 0
  /\ interrupts = {}
  /\ effects = <<>>
  /\ turn = [no |-> 0, clean |-> TRUE, texts |-> <<>>, startLen |-> 0]
  /\ isDemoMode \in BOOLEAN
  /\ storedCount \in (IF isDemoMode THEN StoredCounts ELSE {0})
  /\ turnCount = storedCount
  /\ lockTime = NoLock
  /\ lockTimers = <<>>

\* the Generator is on screen: App renders it only in the APP view, with
\* App's isDemoMode as its prop
InitApp == app = [view |-> "APP", demo |-> isDemoMode, timers |-> <<>>]

InitSide ==
  /\ clean = CleanIdle
  /\ showTranscript = FALSE
  /\ fenced = FALSE
  /\ replays = <<>>
  /\ InitApp

InitVideo ==
  /\ videoMode = "NONE"
  /\ videoStreamRef = FALSE
  /\ videoInterval = FALSE
  /\ videoPending = "NONE"
  /\ videoAttach = "NONE"

\* a startSession call that awaits its microphone stream
NewSess == [phase |-> "media", stream |-> FALSE, source |-> FALSE,
            proc |-> FALSE, resolved |-> FALSE, stopped |-> FALSE,
            remote |-> FALSE, deferred |-> <<>>]

\* the component as constructed: no session
InitIdle ==
  /\ isConnected = FALSE
  /\ isMicOn = TRUE
  /\ isMicOnRef = TRUE
  /\ micStreamRef = 0
  /\ inputSourceRef = 0
  /\ processorRef = 0
  /\ sessionRef = 0
  /\ sess = <<>>
  /\ InitVideo
  /\ ticks = <<>>
  /\ sent = <<>>
  /\ lastOp = "none"
  /\ afterStop = FALSE

\* the first startSession call has got its stream, its channel is open and
\* its promise has resolved
InitEstablished ==
  /\ isConnected = TRUE
  /\ isMicOn = TRUE
  /\ isMicOnRef = TRUE
  /\ micStreamRef = 1
  /\ inputSourceRef = 1
  /\ processorRef = 1
  /\ sessionRef = 1
  /\ sess = <<[NewSess EXCEPT !.phase = "open", !.stream = TRUE,
                               !.source = TRUE, !.proc = TRUE,
                               !.resolved = TRUE]>>
  /\ InitVideo
  /\ ticks = <<>>
  /\ sent = <<>>
  /\ lastOp = "other"
  /\ afterStop = FALSE

\* the inbound side is checked from the state in which a session is
\* established
Init ==
  /\ InitLive
  /\ InitSide
  /\ InitEstablished

Next ==
  \/ \E m \in Shapes(nmsgs + 1) : OnMessage(m)
  \/ \E m \in pending, d \in Durations : DecodeDone(m, d)
  \/ \E m \in pending : DecodeFailed(m)
  \/ \E i \in DOMAIN sources : Ended(i)
  \/ \E d \in TickSteps : Tick(d)

Spec == Init /\ [][Next]_vars

(***************************************************************************)
(* cleanTranscript on its own: every text of up to MaxCleanLen characters  *)
(* over letters, the space and the delimiter                               *)
(***************************************************************************)
CleanAlphabet == {"a", "b", Space, Delim}

CleanInputs == UNION {[1..n -> CleanAlphabet] : n \in 0..MaxCleanLen}

InitClean ==
  /\ InitLive
  /\ ~isDemoMode
  /\ \E t \in CleanInputs : clean = [in |-> t, out |-> <<>>, done |-> FALSE]
  /\ showTranscript = FALSE
  /\ fenced = FALSE
  /\ replays = <<>>
  /\ InitApp
  /\ InitIdle

\* the render calls cleanTranscript(item.text)
CleanText ==
  /\ ~clean.done
  /\ clean' = [clean EXCEPT !.out = cleanTranscript(clean.in), !.done = TRUE]
  /\ UNCHANGED <<liveVars, showTranscript, fenced, replays, app, sessVars, sent>>

NextClean == CleanText

SpecClean == InitClean /\ [][NextClean]_vars

(***************************************************************************)
(* The SYSTEM LOG window: what transcript.map renders for one item.        *)
(* shown is FALSE when the callback returns null; header, bubble and       *)
(* replay are the three elements of a rendered item.                       *)
(***************************************************************************)
NoElement == [shown |-> FALSE, header |-> FALSE, bubble |-> FALSE,
              text |-> <<>>, replay |-> FALSE]

RenderItem(item) ==
  LET cleanedText == IF item.source = "AI" THEN cleanTranscript(item.text)
                     ELSE item.text
  IN IF cleanedText = <<>> /\ ~item.hasChunks THEN NoElement
     ELSE [shown |-> TRUE, header |-> TRUE, bubble |-> cleanedText # <<>>,
           text |-> cleanedText,
           replay |-> /\ item.source = "AI" /\ item.hasChunks
                      /\ Len(item.audioChunks) > 0]

\* the rendered transcript: nothing while the window is closed
View ==
  IF showTranscript
  THEN [k \in DOMAIN transcript |-> RenderItem(transcript[k])]
  ELSE <<>>

\* the transcript button
ToggleTranscript ==
  /\ Mounted
  /\ showTranscript' = ~showTranscript
  /\ UNCHANGED <<liveVars, clean, fenced, replays, app, sessVars, sent>>

(***************************************************************************)
(* Messages of a model that fences its turns: within a turn the model      *)
(* emits thought text, then the delimiter, then the reply.  Text comes as  *)
(* a text part, or as the output transcription of a message that carries   *)
(* an audio part.                                                          *)
(***************************************************************************)
Thought == <<"t">>
Reply == <<"r">>
FencedReply == <<Delim, "r">>

TurnTexts(f) == IF f THEN {Reply} ELSE {Thought, FencedReply}

FenceShapes(n, f) ==
  {Msg(n, FALSE, tx, NoText, NoText, FALSE, FALSE) : tx \in TurnTexts(f)}
  \cup {Msg(n, TRUE, NoText, tx, NoText, FALSE, FALSE) : tx \in TurnTexts(f)}
  \cup {Msg(n, FALSE, NoText, NoText, <<"u">>, FALSE, FALSE),
        Msg(n, FALSE, NoText, NoText, NoText, TRUE, FALSE),
        Msg(n, FALSE, NoText, NoText, NoText, FALSE, TRUE)}

FenceOnMessage(m) ==
  /\ m \in FenceShapes(nmsgs + 1, fenced)
  /\ Deliver(m)
  /\ fenced' = IF m.turnComplete \/ m.interrupted THEN FALSE
               ELSE fenced \/ Includes(m.text \o m.outText, Delim)

NextFence ==
  \/ \E m \in FenceShapes(nmsgs + 1, fenced) : FenceOnMessage(m)
  \/ \E m \in pending, d \in Durations : DecodeDone(m, d)
  \/ \E m \in pending : DecodeFailed(m)
  \/ ToggleTranscript

SpecFence == Init /\ [][NextFence]_vars

(***************************************************************************)
(* Session lifecycle.  The refs and state that startSession, its callbacks *)
(* and stopSession write, as one value.                                    *)
(***************************************************************************)
SessState ==
  [isConnected |-> isConnected, micStreamRef |-> micStreamRef,
   inputSourceRef |-> inputSourceRef, processorRef |-> processorRef,
   sessionRef |-> sessionRef, sess |-> sess, videoMode |-> videoMode,
   videoStreamRef |-> videoStreamRef, videoInterval |-> videoInterval,
   videoPending |-> videoPending, videoAttach |-> videoAttach]

SetSess(X) ==
  /\ isConnected' = X.isConnected
  /\ micStreamRef' = X.micStreamRef
  /\ inputSourceRef' = X.inputSourceRef
  /\ processorRef' = X.processorRef
  /\ sessionRef' = X.sessionRef
  /\ sess' = X.sess
  /\ videoMode' = X.videoMode
  /\ videoStreamRef' = X.videoStreamRef
  /\ videoInterval' = X.videoInterval
  /\ videoPending' = X.videoPending
  /\ videoAttach' = X.videoAttach

\* clearInterval, stop the tracks of the held stream, setVideoMode('NONE')
stopVideo(X) ==
  [X EXCEPT !.videoInterval = FALSE, !.videoStreamRef = FALSE,
            !.videoMode = "NONE"]

StopMic_keepRef(X) ==
  IF X.micStreamRef # 0
  THEN [X EXCEPT !.sess[X.micStreamRef].stream = FALSE]
  ELSE X

\* if (micStreamRef.current) { stop its tracks; micStreamRef.current = null }
StopMic(X) ==
  IF X.micStreamRef # 0
  THEN [X EXCEPT !.sess[X.micStreamRef].stream = FALSE, !.micStreamRef = 0]
  ELSE X

stopSession(X) ==
  LET X1 == [stopVideo(X) EXCEPT !.isConnected = FALSE]
      X2 == StopMic(X1)
      X3 == IF X2.inputSourceRef # 0
            THEN [X2 EXCEPT !.sess[X2.inputSourceRef].source = FALSE,
                            !.inputSourceRef = 0]
            ELSE X2
      X4 == IF X3.processorRef # 0
            THEN [X3 EXCEPT !.sess[X3.processorRef].proc = FALSE,
                            !.processorRef = 0]
            ELSE X3
  IN [X4 EXCEPT !.sessionRef = 0]

\* stopSession, and the calls made so far are marked as stopped
StopCall(X) ==
  LET Y == stopSession(X)
  IN [Y EXCEPT !.sess = [k \in DOMAIN Y.sess |->
                           [Y.sess[k] EXCEPT !.stopped = TRUE]]]

\* the demo checks at the head of startSession: locked out
DemoLocked ==
  /\ isDemoMode
  /\ \/ lockTime # NoLock /\ now - lockTime < LOCK_WINDOW_MS
     \/ turnCount >= DEMO_LIMIT

\* the handlers below leave the inbound side and the windows alone
SessFrame == UNCHANGED <<liveVars, sideVars>>

\* App.handleDemoLockout: setViewState('LOGIN'); setIsDemoMode(false)
handleDemoLockout(a) == [a EXCEPT !.view = "LOGIN", !.demo = FALSE]

\* a new start request: the remote closes and errors seen so far precede it
Requested(ss) == [k \in DOMAIN ss |-> [ss[k] EXCEPT !.remote = FALSE]]

\* the start button (shown while not connected): startSession up to its
\* await of getUserMedia
StartSession ==
  /\ Mounted
  /\ ~isConnected
  /\ Len(sess) < MaxSessions
  /\ UNCHANGED <<liveVars, clean, showTranscript, fenced, replays>>
  /\ UNCHANGED <<micVars, ticks, sent>>
  /\ IF DemoLocked
     THEN \* onDemoLockout(); return: the Generator unmounts and its
          \* cleanup calls stopSession()
          /\ app' = handleDemoLockout(app)
          /\ SetSess(StopCall(SessState))
          /\ lastOp' = "stop"
          /\ afterStop' = TRUE
     ELSE /\ SetSess([SessState EXCEPT !.sess = Append(Requested(@), NewSess)])
          /\ lastOp' = "start"
          /\ afterStop' = FALSE
          /\ UNCHANGED app

\* getUserMedia resolves: micStreamRef.current = stream, live.connect(...)
MediaGranted(k) ==
  /\ k \in DOMAIN sess /\ sess[k].phase = "media"
  /\ SetSess([SessState EXCEPT !.micStreamRef = k, !.sess[k].stream = TRUE,
                               !.sess[k].phase = "connecting"])
  /\ lastOp' = "other"
  /\ SessFrame
  /\ UNCHANGED <<micVars, ticks, sent, afterStop>>

\* getUserMedia rejects: catch (e) { stopSession() }
MediaDenied(k) ==
  /\ k \in DOMAIN sess /\ sess[k].phase = "media"
  /\ SetSess([StopCall(SessState) EXCEPT !.sess[k].phase = "closed"])
  /\ lastOp' = "stop"
  /\ afterStop' = TRUE
  /\ SessFrame
  /\ UNCHANGED <<micVars, ticks, sent>>

\* callbacks.onopen
OnOpen(k) ==
  /\ k \in DOMAIN sess /\ sess[k].phase = "connecting"
  /\ SetSess([SessState EXCEPT !.isConnected = TRUE, !.inputSourceRef = k,
                               !.processorRef = k, !.sess[k].source = TRUE,
                               !.sess[k].proc = TRUE,
                               !.sess[k].phase = "open"])
  /\ lastOp' = "other"
  /\ SessFrame
  /\ UNCHANGED <<micVars, ticks, sent, afterStop>>

\* sessionPromise resolves: sessionRef.current = sess, then the sends that
\* capture ticks chained on the promise
Resolved(k) ==
  /\ k \in DOMAIN sess /\ sess[k].phase = "open" /\ ~sess[k].resolved
  /\ SetSess([SessState EXCEPT !.sessionRef = k, !.sess[k].resolved = TRUE,
                               !.sess[k].deferred = <<>>])
  /\ sent' = sent \o [i \in DOMAIN sess[k].deferred |->
                        Payload("audio", k, sess[k].deferred[i])]
  /\ lastOp' = "other"
  /\ SessFrame
  /\ UNCHANGED <<micVars, ticks, afterStop>>

\* sessionPromise rejects: .catch(() => stopSession())
Rejected(k) ==
  /\ k \in DOMAIN sess /\ sess[k].phase = "connecting"
  /\ SetSess([StopCall(SessState) EXCEPT !.sess[k].phase = "closed"])
  /\ lastOp' = "stop"
  /\ afterStop' = TRUE
  /\ SessFrame
  /\ UNCHANGED <<micVars, ticks, sent>>

\* callbacks.onclose: the remote end closed the channel
OnClose(k) ==
  /\ k \in DOMAIN sess /\ sess[k].phase = "open"
  /\ SetSess([StopCall(SessState) EXCEPT !.sess[k].phase = "closed",
                                         !.sess[k].remote = TRUE])
  /\ lastOp' = "stop"
  /\ afterStop' = TRUE
  /\ SessFrame
  /\ UNCHANGED <<micVars, ticks, sent>>

\* callbacks.onerror on an open channel
OnError(k) ==
  /\ k \in DOMAIN sess /\ sess[k].phase = "open"
  /\ SetSess([StopCall(SessState) EXCEPT !.sess[k].remote = TRUE])
  /\ lastOp' = "stop"
  /\ afterStop' = TRUE
  /\ SessFrame
  /\ UNCHANGED <<micVars, ticks, sent>>

\* the disconnect button (shown while connected)
StopClick ==
  /\ Mounted
  /\ isConnected
  /\ SetSess(StopCall(SessState))
  /\ lastOp' = "stop"
  /\ afterStop' = TRUE
  /\ SessFrame
  /\ UNCHANGED <<micVars, ticks, sent>>

MicRefSync_skipped(new, old) == old

\* useEffect(() => { isMicOnRef.current = isMicOn }, [isMicOn]), run when
\* the click's state update is committed
MicRefSync(new, old) == new

\* the mic button (shown while connected): setIsMicOn(!isMicOn)
ToggleMic ==
  /\ Mounted
  /\ isConnected
  /\ isMicOn' = ~isMicOn
  /\ isMicOnRef' = MicRefSync(~isMicOn, isMicOnRef)
  /\ SessFrame
  /\ UNCHANGED <<sessRefs, ticks, sent, lastOp, afterStop>>

CaptureEnabled_always(ref) == TRUE

\* if (!isMicOnRef.current) return
CaptureEnabled(ref) == ref

\* processor.onaudioprocess of call k fires while its processor is connected
AudioTick(k) ==
  /\ k \in DOMAIN sess /\ sess[k].proc
  /\ Len(ticks) < MaxTicks
  /\ ticks' = Append(ticks, isMicOn)
  /\ LET n == Len(ticks) + 1
         emits == /\ CaptureEnabled(isMicOnRef)
                  /\ ~DemoExhausted(isDemoMode, turnCount)
     IN IF ~emits THEN UNCHANGED <<sessRefs, sent>>
        ELSE IF sess[k].resolved
             THEN /\ sent' = IF sess[k].phase = "open"
                             THEN Append(sent, Payload("audio", k, n))
                             ELSE sent
                  /\ UNCHANGED sessRefs
             ELSE /\ SetSess([SessState EXCEPT
                                !.sess[k].deferred = Append(@, n)])
                  /\ UNCHANGED sent
  /\ SessFrame
  /\ UNCHANGED <<micVars, lastOp, afterStop>>

VideoModes == {"CAMERA", "SCREEN"}

\* the camera and screen buttons (shown while connected): toggleVideo(mode)
\* up to its await; startCamera first stops the stream that is held
toggleVideo(mode) ==
  /\ Mounted
  /\ isConnected
  /\ mode \in VideoModes
  /\ IF videoMode = mode
     THEN SetSess(stopVideo(SessState))
     ELSE LET X1 == IF videoMode # "NONE" THEN stopVideo(SessState)
                    ELSE SessState
              X2 == IF mode = "CAMERA"
                    THEN [X1 EXCEPT !.videoStreamRef = FALSE] ELSE X1
          IN SetSess([X2 EXCEPT !.videoPending = mode])
  /\ lastOp' = "other"
  /\ SessFrame
  /\ UNCHANGED <<micVars, ticks, sent, afterStop>>

\* the stream of the pending toggleVideo call arrives; the video effect
\* arms its attach timeout
VideoGranted ==
  /\ videoPending # "NONE"
  /\ SetSess([SessState EXCEPT !.videoStreamRef = TRUE,
                               !.videoMode = videoPending,
                               !.videoPending = "NONE",
                               !.videoAttach = "TIMER"])
  /\ lastOp' = "other"
  /\ SessFrame
  /\ UNCHANGED <<micVars, ticks, sent, afterStop>>

\* the <video> element is rendered, and its ref set, while a mode is on
ElementMounted(mode) == mode # "NONE"

\* the attach timeout: if (videoElementRef.current && videoStreamRef.current)
\* the stream is attached and play() is awaited
AttachStream ==
  /\ videoAttach = "TIMER"
  /\ SetSess([SessState EXCEPT
               !.videoAttach = IF ElementMounted(videoMode) /\ videoStreamRef
                               THEN "PLAY" ELSE "NONE"])
  /\ lastOp' = "other"
  /\ SessFrame
  /\ UNCHANGED <<micVars, ticks, sent, afterStop>>

\* play() resolves: startFrameCapture() sets the interval
PlayResolved ==
  /\ videoAttach = "PLAY"
  /\ SetSess([SessState EXCEPT !.videoAttach = "NONE", !.videoInterval = TRUE])
  /\ lastOp' = "other"
  /\ SessFrame
  /\ UNCHANGED <<micVars, ticks, sent, afterStop>>

\* play() rejects: catch(e){}
PlayRejected ==
  /\ videoAttach = "PLAY"
  /\ SetSess([SessState EXCEPT !.videoAttach = "NONE"])
  /\ lastOp' = "other"
  /\ SessFrame
  /\ UNCHANGED <<micVars, ticks, sent, afterStop>>

FrameAllowed_noElement(ref, mode) == ref # 0

\* if (!sessionRef.current || !videoElementRef.current || ...) return
FrameAllowed(ref, mode) == ref # 0 /\ ElementMounted(mode)

\* number of video frames sent so far
NFrames == Cardinality({i \in DOMAIN sent : sent[i].kind = "video"})

\* the capture interval fires and its callback sends a frame on the handle
FrameTick ==
  /\ videoInterval
  /\ NFrames < MaxFrames
  /\ FrameAllowed(sessionRef, videoMode)
  /\ sent' = Append(sent, Payload("video", sessionRef, 0))
  /\ SessFrame
  /\ UNCHANGED <<sessRefs, micVars, ticks, lastOp, afterStop>>

\* turn complete is the one inbound message that makes the handler send
SessionShapes(n) == {Msg(n, FALSE, NoText, NoText, NoText, FALSE, TRUE)}

SessionOnMessage(m) ==
  /\ m \in SessionShapes(nmsgs + 1)
  /\ Deliver(m)
  /\ UNCHANGED fenced

InitSession ==
  /\ InitLive
  /\ InitSide
  /\ InitIdle

\* the session lifecycle with its capture ticks and inbound turn completes
NextSession ==
  \/ StartSession
  \/ \E k \in DOMAIN sess : MediaGranted(k)
  \/ \E k \in DOMAIN sess : MediaDenied(k)
  \/ \E k \in DOMAIN sess : OnOpen(k)
  \/ \E k \in DOMAIN sess : Resolved(k)
  \/ \E k \in DOMAIN sess : Rejected(k)
  \/ \E k \in DOMAIN sess : OnClose(k)
  \/ \E k \in DOMAIN sess : OnError(k)
  \/ StopClick
  \/ \E k \in DOMAIN sess : AudioTick(k)
  \/ \E m \in SessionShapes(nmsgs + 1) : SessionOnMessage(m)

SpecSession == InitSession /\ [][NextSession]_vars

\* the session lifecycle with the video feed
NextStop ==
  \/ StartSession
  \/ \E k \in DOMAIN sess : MediaGranted(k)
  \/ \E k \in DOMAIN sess : MediaDenied(k)
  \/ \E k \in DOMAIN sess : OnOpen(k)
  \/ \E k \in DOMAIN sess : Resolved(k)
  \/ \E k \in DOMAIN sess : Rejected(k)
  \/ \E k \in DOMAIN sess : OnClose(k)
  \/ \E k \in DOMAIN sess : OnError(k)
  \/ StopClick
  \/ \E mode \in VideoModes : toggleVideo(mode)
  \/ VideoGranted
  \/ AttachStream
  \/ PlayResolved
  \/ PlayRejected

\* the component as constructed, outside the demo
InitStop ==
  /\ InitSession
  /\ ~isDemoMode

SpecStop == InitStop /\ [][NextStop]_vars

\* the first startSession call has got its stream and awaits the channel
InitConnecting ==
  /\ isConnected = FALSE
  /\ isMicOn = TRUE
  /\ isMicOnRef = TRUE
  /\ micStreamRef = 1
  /\ inputSourceRef = 0
  /\ processorRef = 0
  /\ sessionRef = 0
  /\ sess = <<[NewSess EXCEPT !.phase = "connecting", !.stream = TRUE]>>
  /\ InitVideo
  /\ ticks = <<>>
  /\ sent = <<>>
  /\ lastOp = "other"
  /\ afterStop = FALSE

InitMic ==
  /\ InitLive
  /\ InitSide
  /\ InitConnecting

\* one session from its connect to its stop, with the mic button, the
\* capture ticks and inbound turn completes
NextMic ==
  \/ \E k \in DOMAIN sess : OnOpen(k)
  \/ \E k \in DOMAIN sess : Resolved(k)
  \/ StopClick
  \/ ToggleMic
  \/ \E k \in DOMAIN sess : AudioTick(k)
  \/ \E m \in SessionShapes(nmsgs + 1) : SessionOnMessage(m)

SpecMic == InitMic /\ [][NextMic]_vars

\* one session from its connect to its stop, with the video feed and its
\* capture interval
NextVideo ==
  \/ \E k \in DOMAIN sess : OnOpen(k)
  \/ \E k \in DOMAIN sess : Resolved(k)
  \/ StopClick
  \/ \E mode \in VideoModes : toggleVideo(mode)
  \/ VideoGranted
  \/ AttachStream
  \/ PlayResolved
  \/ PlayRejected
  \/ FrameTick

SpecVideo == InitMic /\ [][NextVideo]_vars

(***************************************************************************)
(* The playback scheduler under audio and interrupts alone                 *)
(***************************************************************************)
\* an established session outside the demo
InitPlayback ==
  /\ InitLive
  /\ ~isDemoMode
  /\ InitSide
  /\ InitEstablished

\* the messages that reach the scheduler: audio parts and interrupts
PlaybackShapes(n) ==
  { Msg(n, TRUE,  NoText, NoText, NoText, FALSE, FALSE),
    Msg(n, FALSE, NoText, NoText, NoText, TRUE, FALSE) }

PlaybackOnMessage(m) ==
  /\ m \in PlaybackShapes(nmsgs + 1)
  /\ Deliver(m)
  /\ UNCHANGED fenced

NextPlayback ==
  \/ \E m \in PlaybackShapes(nmsgs + 1) : PlaybackOnMessage(m)
  \/ \E m \in pending, d \in Durations : DecodeDone(m, d)
  \/ \E m \in pending : DecodeFailed(m)
  \/ \E i \in DOMAIN sources : Ended(i)
  \/ \E d \in TickSteps : Tick(d)

SpecPlayback == InitPlayback /\ [][NextPlayback]_vars

(***************************************************************************)
(* Replay of a turn's audio (the Replay button of an AI item in the SYSTEM *)
(* LOG window).  Each call keeps its own local `time`; its source nodes    *)
(* are not pushed to audioQueueRef.                                        *)
(***************************************************************************)
ReplayTimeline_live(currentTime, npt) == Max(currentTime, npt)

\* let time = ctx.currentTime
ReplayTimeline(currentTime, npt) == currentTime

\* the button of item k: the call runs up to the decode of its first chunk
ReplayClick(k) ==
  /\ Mounted
  /\ showTranscript
  /\ Len(replays) < MaxReplays
  /\ k \in DOMAIN transcript
  /\ transcript[k].source = "AI" /\ transcript[k].audioChunks # <<>>
  /\ replays' = Append(replays,
                  [chunks |-> transcript[k].audioChunks, clickedAt |-> now,
                   time |-> ReplayTimeline(now, nextPlayTime),
                   started |-> <<>>])
  /\ UNCHANGED <<liveVars, clean, showTranscript, fenced, app, sessVars, sent>>

\* the durations a decode of chunk c may give: the one its live decode
\* gave, the bytes being the same
ReplayDurations(c) ==
  IF \E i \in DOMAIN sources : sources[i].chunk = c
  THEN {sources[i].duration : i \in {j \in DOMAIN sources : sources[j].chunk = c}}
  ELSE Durations

\* the decode of the call's next chunk resolves with a buffer of duration
\* d: src.start(time); time += buffer.duration
ReplayDecoded(r, d) ==
  /\ r \in DOMAIN replays /\ replays[r].chunks # <<>>
  /\ d \in ReplayDurations(Head(replays[r].chunks))
  /\ replays' = [replays EXCEPT
                   ![r].started = Append(@, [chunk |-> Head(replays[r].chunks),
                                             start |-> replays[r].time,
                                             duration |-> d]),
                   ![r].time = @ + d,
                   ![r].chunks = Tail(@)]
  /\ UNCHANGED <<liveVars, clean, showTranscript, fenced, app, sessVars, sent>>

\* the decode throws: catch(e) {}, the loop goes on with the next chunk
ReplayFailed(r) ==
  /\ r \in DOMAIN replays /\ replays[r].chunks # <<>>
  /\ replays' = [replays EXCEPT ![r].chunks = Tail(@)]
  /\ UNCHANGED <<liveVars, clean, showTranscript, fenced, app, sessVars, sent>>

\* what the session delivers while turns are replayed: audio
ReplayShapes(n) == { Msg(n, TRUE,  NoText, NoText, NoText, FALSE, FALSE) }

ReplayOnMessage(m) ==
  /\ m \in ReplayShapes(nmsgs + 1)
  /\ Deliver(m)
  /\ UNCHANGED fenced

\* an established session outside the demo, the SYSTEM LOG window open
InitReplay ==
  /\ InitLive
  /\ ~isDemoMode
  /\ clean = CleanIdle
  /\ showTranscript = TRUE
  /\ fenced = FALSE
  /\ replays = <<>>
  /\ InitApp
  /\ InitEstablished

NextReplay ==
  \/ \E m \in ReplayShapes(nmsgs + 1) : ReplayOnMessage(m)
  \/ \E m \in pending, d \in Durations : DecodeDone(m, d)
  \/ \E d \in TickSteps : Tick(d)
  \/ \E k \in DOMAIN transcript : ReplayClick(k)
  \/ \E r \in DOMAIN replays, d \in Durations : ReplayDecoded(r, d)
  \/ \E r \in DOMAIN replays : ReplayFailed(r)

SpecReplay == InitReplay /\ [][NextReplay]_vars

(***************************************************************************)
(* Typed input (the command bar, shown while connected)                    *)
(***************************************************************************)
\* what the user may have typed when the form is submitted
TextInputs == {<<"x">>, <<Space, "y">>, <<Space>>}

TextAccepted_noHandle(txt, ref) == Trim(txt) # <<>>

\* past `if (!textInput.trim() || !sessionRef.current) return`
TextAccepted(txt, ref) == Trim(txt) # <<>> /\ ref # 0

\* sessionRef.current.sendRealtimeInput({content: ...}) on the handle k
TextPayload(k) ==
  [kind |-> "text", session |-> k, tick |-> 0,
   afterStop |-> k # 0 /\ sess[k].stopped]

\* a call handleUserTranscript(txt) made by handleTextInput
TypedEff(txt) == [msg |-> 0, kind |-> "typed", text |-> txt]

\* number of typed texts taken so far
NTyped == Cardinality({k \in DOMAIN effects : effects[k].kind = "typed"})

handleTextInput(textInput) ==
  /\ Mounted
  /\ isConnected
  /\ NTyped < MaxTexts
  /\ textInput \in TextInputs
  /\ ~DemoExhausted(isDemoMode, turnCount)
  /\ TextAccepted(textInput, sessionRef)
  /\ LET txt == Trim(textInput)
     IN /\ sent' = Append(sent, TextPayload(sessionRef))
        /\ transcript' = handleUserTranscript(transcript, txt, now)
        /\ effects' = Append(effects, TypedEff(txt))
  /\ UNCHANGED <<now, schedVars, pending, nmsgs, interrupts, turn, demoVars,
                 sideVars, sessVars>>

\* the inbound messages next to typed input: the user's speech and the end
\* of a turn
TextShapes(n) ==
  {Msg(n, FALSE, NoText, NoText, Letter(n), FALSE, FALSE),
   Msg(n, FALSE, NoText, NoText, NoText, FALSE, TRUE)}

TextOnMessage(m) ==
  /\ m \in TextShapes(nmsgs + 1)
  /\ Deliver(m)
  /\ UNCHANGED fenced

\* one session from its connect to its stop, with the command bar
NextText ==
  \/ \E k \in DOMAIN sess : OnOpen(k)
  \/ \E k \in DOMAIN sess : Resolved(k)
  \/ StopClick
  \/ \E textInput \in TextInputs : handleTextInput(textInput)
  \/ \E m \in TextShapes(nmsgs + 1) : TextOnMessage(m)
  \/ \E d \in TickSteps : Tick(d)

SpecText == InitMic /\ [][NextText]_vars

(***************************************************************************)
(* One demo session with its microphone, its command bar and the turn      *)
(* completes that count its turns                                          *)
(***************************************************************************)
InitDemo ==
  /\ InitMic
  /\ isDemoMode

NextDemo ==
  \/ \E k \in DOMAIN sess : OnOpen(k)
  \/ \E k \in DOMAIN sess : Resolved(k)
  \/ \E k \in DOMAIN sess : AudioTick(k)
  \/ \E t \in TextInputs : handleTextInput(t)
  \/ \E m \in SessionShapes(nmsgs + 1) : SessionOnMessage(m)

SpecDemo == InitDemo /\ [][NextDemo]_vars

(***************************************************************************)
(* The transcript under all its writers: model text, the user's speech,    *)
(* turn completes and typed input                                          *)
(***************************************************************************)
TranscriptShapes(n) ==
  { Msg(n, FALSE, Letter(n), NoText, NoText, FALSE, FALSE),
    Msg(n, FALSE, NoText, NoText, Letter(n), FALSE, FALSE),
    Msg(n, FALSE, NoText, NoText, NoText, FALSE, TRUE) }

TranscriptOnMessage(m) ==
  /\ m \in TranscriptShapes(nmsgs + 1)
  /\ Deliver(m)
  /\ UNCHANGED fenced

NextTranscript ==
  \/ \E m \in TranscriptShapes(nmsgs + 1) : TranscriptOnMessage(m)
  \/ \E t \in TextInputs : handleTextInput(t)
  \/ \E d \in TickSteps : Tick(d)

SpecTranscript == InitPlayback /\ [][NextTranscript]_vars

(***************************************************************************)
(* The lockout timeout of handleLockoutSequence                            *)
(***************************************************************************)
\* real time passes; it goes on past MaxTime while a timeout is pending
Wait(d) ==
  /\ d \in TickSteps
  /\ \/ now + d <= MaxTime
     \/ \E i \in DOMAIN lockTimers : lockTimers[i] > now
     \/ \E i \in DOMAIN app.timers : app.timers[i] > now
  /\ now' = now + d
  /\ UNCHANGED <<schedVars, transcript, pending, nmsgs, interrupts, effects,
                 turn, demoVars, sideVars, sessVars, sent>>

\* the timeout callback runs when its delay has elapsed:
\* stopSession(); onDemoLockout()
FireLockout ==
  /\ lockTimers # <<>>
  /\ now >= Head(lockTimers)
  /\ lockTimers' = Tail(lockTimers)
  /\ SetSess(StopCall(SessState))
  /\ app' = handleDemoLockout(app)
  /\ lastOp' = "lockout"
  /\ afterStop' = TRUE
  /\ UNCHANGED <<now, schedVars, transcript, pending, nmsgs, interrupts,
                 effects, turn, isDemoMode, turnCount, storedCount, lockTime,
                 clean, showTranscript, fenced, replays, micVars, ticks, sent>>

\* turn completes arrive up to MaxTime
LockOnMessage(m) ==
  /\ now <= MaxTime
  /\ SessionOnMessage(m)

NextLockout ==
  \/ \E m \in SessionShapes(nmsgs + 1) : LockOnMessage(m)
  \/ \E d \in TickSteps : Wait(d)
  \/ FireLockout

\* time passes and a due timeout is run
SpecLockout ==
  /\ Init
  /\ [][NextLockout]_vars
  /\ WF_vars(\E d \in TickSteps : Wait(d))
  /\ WF_vars(FireLockout)

(***************************************************************************)
(* App: the login screen, the transition into the APP view and the console *)
(***************************************************************************)
TRANSITION_MS == 1200

Passwords == {"nsdadmin", "demo78"}

\* handleLogin with one of the two passwords, from the login screen
Login(pw) ==
  /\ app.view = "LOGIN"
  /\ pw \in Passwords
  /\ IF pw = "nsdadmin"
     THEN /\ app' = [view |-> "TRANSITION", demo |-> FALSE,
                     timers |-> Append(app.timers, now + TRANSITION_MS)]
          /\ storedCount' = 0
          /\ lockTime' = NoLock
     ELSE \* a lock younger than the window: playRoast(); return
          /\ ~(lockTime # NoLock /\ now - lockTime < LOCK_WINDOW_MS)
          /\ app' = [view |-> "TRANSITION", demo |-> TRUE,
                     timers |-> Append(app.timers, now + TRANSITION_MS)]
          /\ storedCount' = IF lockTime # NoLock THEN 0 ELSE storedCount
          /\ lockTime' = NoLock
  /\ UNCHANGED <<now, schedVars, transcript, pending, nmsgs, interrupts,
                 effects, turn, isDemoMode, turnCount, lockTimers,
                 clean, showTranscript, fenced, replays, sessVars, sent>>

\* the Generator is constructed and its init effect runs: a demo instance
\* reads its counter from 'nsd_demo_count'
Mount(demo) ==
  /\ nextPlayTime' = 0
  /\ audioQueue' = <<>>
  /\ sources' = <<>>
  /\ flushes' = 0
  /\ transcript' = <<>>
  /\ pending' = {}
  /\ interrupts' = {}
  /\ effects' = <<>>
  /\ turn' = [no |-> 0, clean |-> TRUE, texts |-> <<>>, startLen |-> 0]
  /\ isDemoMode' = demo
  /\ turnCount' = IF demo THEN storedCount ELSE 0
  /\ clean' = CleanIdle
  /\ showTranscript' = FALSE
  /\ fenced' = FALSE
  /\ replays' = <<>>
  /\ isConnected' = FALSE
  /\ isMicOn' = TRUE
  /\ isMicOnRef' = TRUE
  /\ micStreamRef' = 0
  /\ inputSourceRef' = 0
  /\ processorRef' = 0
  /\ sessionRef' = 0
  /\ sess' = <<>>
  /\ videoMode' = "NONE"
  /\ videoStreamRef' = FALSE
  /\ videoInterval' = FALSE
  /\ videoPending' = "NONE"
  /\ videoAttach' = "NONE"
  /\ lastOp' = "none"
  /\ afterStop' = FALSE
  /\ UNCHANGED <<nmsgs, ticks, sent>>

\* the transition's timeout runs: onComplete is setViewState('APP')
TransitionDone ==
  /\ app.timers # <<>>
  /\ now >= Head(app.timers)
  /\ app' = [app EXCEPT !.view = "APP", !.timers = Tail(@)]
  /\ UNCHANGED <<now, storedCount, lockTime, lockTimers>>
  /\ IF app.view # "APP"
     THEN Mount(app.demo)
     ELSE UNCHANGED <<schedVars, transcript, pending, nmsgs, interrupts,
                      effects, turn, isDemoMode, turnCount, clean,
                      showTranscript, fenced, replays, sessVars, sent>>

\* the console command override_demo
OverrideDemo ==
  /\ storedCount' = 0
  /\ lockTime' = NoLock
  /\ UNCHANGED <<now, schedVars, transcript, pending, nmsgs, interrupts,
                 effects, turn, isDemoMode, turnCount, lockTimers, sideVars,
                 sessVars, sent>>

\* a demo session is under way
InitAppDemo ==
  /\ Init
  /\ isDemoMode

\* turns complete, the lockout and the transition timeouts run, and the
\* user stops, starts, logs in and types override_demo
NextApp ==
  \/ \E m \in SessionShapes(nmsgs + 1) : LockOnMessage(m)
  \/ \E d \in TickSteps : Wait(d)
  \/ FireLockout
  \/ StopClick
  \/ StartSession
  \/ \E pw \in Passwords : Login(pw)
  \/ TransitionDone
  \/ OverrideDemo

SpecApp == InitAppDemo /\ [][NextApp]_vars

(***************************************************************************)
(* Properties                                                              *)
(***************************************************************************)
End(n) == n.start + n.duration

Live(i) == ~sources[i].stopped

\* C1: no two source nodes that clearAudioQueue has not stopped have
\* overlapping play intervals [start, start + duration)
C1_NoOverlap ==
  \A i, j \in DOMAIN sources :
    (i < j /\ Live(i) /\ Live(j)) =>
      (End(sources[i]) <= sources[j].start
       \/ End(sources[j]) <= sources[i].start)

\* two nodes are scheduled after a flush, the second queued behind the
\* first: it arrived while the first had not finished
C1_Witness ==
  /\ flushes > 0
  /\ \E i, j \in DOMAIN sources :
       /\ i < j /\ Live(i) /\ Live(j)
       /\ sources[j].readAt < End(sources[i])

FirstOfRun(i) == i = 1 \/ sources[i - 1].epoch # sources[i].epoch

Audible(i) == Live(i) /\ now < End(sources[i])

\* C3: once an interrupted event has been handled, no chunk that arrived
\* before it is scheduled or playing
C3_NoStaleAudioAfterInterrupt ==
  \A k \in interrupts : \A i \in DOMAIN sources :
    sources[i].chunk < k => ~Audible(i)

\* C4: chunks are scheduled in the order in which their messages arrived
C4_ScheduledInArrivalOrder ==
  \A i, j \in DOMAIN sources :
    (Live(i) /\ Live(j) /\ sources[i].chunk < sources[j].chunk) =>
      sources[i].start < sources[j].start

TurnCompleteStep == turn'.no = turn.no + 1

HasLetter(t) == \E k \in DOMAIN t : t[k] # Space

\* C5: a turn made only of AI partial text events, at least one of them
\* with visible text, followed by turn complete adds exactly one AI item,
\* complete, whose text is the concatenation of the partial texts in
\* arrival order
C5_TurnMerge ==
  [][(TurnCompleteStep /\ turn.clean /\ HasLetter(turn.texts)) =>
       /\ Len(transcript') = turn.startLen + 1
       /\ Last(transcript').source = "AI"
       /\ Last(transcript').text = turn.texts
       /\ Last(transcript').isComplete]_vars

AiSide(e) == e.kind \in {"aiText", "aiAudio", "finalize"}

\* C6: the AI-side transcript calls are applied in the arrival order of
\* the messages they come from
C6_EffectsInArrivalOrder ==
  \A i, j \in DOMAIN effects :
    (i < j /\ AiSide(effects[i]) /\ AiSide(effects[j])) =>
      effects[i].msg <= effects[j].msg

OpenAi == {i \in DOMAIN transcript :
             transcript[i].source = "AI" /\ ~transcript[i].isComplete}

\* C7: at most one AI item is incomplete, and it is the last item
C7_OneOpenAiAtTail ==
  /\ Cardinality(OpenAi) <= 1
  /\ \A i \in OpenAi : i = Len(transcript)

FinalizeStep ==
  /\ Len(effects') > Len(effects)
  /\ Last(effects').kind = "finalize"

\* C8: after interrupted or turn complete has been handled, every AI item
\* of the transcript, the one of the turn in progress included, is complete
C8_FinalizedAfterSignal ==
  [][FinalizeStep =>
       \A i \in DOMAIN transcript' :
         transcript'[i].source = "AI" => transcript'[i].isComplete]_vars

IsPrefix(s, t) == Len(s) <= Len(t) /\ SubSeq(t, 1, Len(s)) = s

\* C9 as stated: an item that is complete keeps its text and audioChunks
C9_NoMutationAfterComplete ==
  [][\A i \in DOMAIN transcript :
       transcript[i].isComplete =>
         /\ i \in DOMAIN transcript'
         /\ transcript'[i].text = transcript[i].text
         /\ transcript'[i].audioChunks = transcript[i].audioChunks]_vars

\* C9 amended: a complete AI item keeps its text and audioChunks; a USER
\* item, complete from its creation, keeps its audioChunks and its text is
\* only ever extended at the end
C9_AiFrozenUserExtended ==
  [][\A i \in DOMAIN transcript :
       transcript[i].isComplete =>
         /\ i \in DOMAIN transcript'
         /\ transcript'[i].isComplete
         /\ transcript'[i].audioChunks = transcript[i].audioChunks
         /\ IF transcript[i].source = "AI"
            THEN transcript'[i].text = transcript[i].text
            ELSE IsPrefix(transcript[i].text, transcript'[i].text)]_vars

\* AI content arrived after an AI item was completed and went to a new
\* item, leaving the completed one as it was
C9_Witness ==
  \E i \in DOMAIN transcript :
    /\ i < Len(transcript)
    /\ transcript[i].source = "AI" /\ transcript[i].isComplete
    /\ transcript[i + 1].source = "AI"

UserStep ==
  /\ Len(effects') = Len(effects) + 1
  /\ Last(effects').kind = "user"

\* C10: a user partial text that arrives less than 3000 ms after the
\* timestamp of a tail USER item is appended to that item and adds no item;
\* otherwise (3000 ms or more, or the tail is not a USER item) it starts a
\* new USER item
C10_UserCoalescing ==
  [][UserStep =>
       LET text == Letter(Last(effects').msg)
       IN IF /\ transcript # <<>>
             /\ Last(transcript).source = "USER"
             /\ now - Last(transcript).timestamp < 3000
          THEN /\ Len(transcript') = Len(transcript)
               /\ Front(transcript') = Front(transcript)
               /\ Last(transcript').text = Last(transcript).text \o text
               /\ Last(transcript').timestamp = Last(transcript).timestamp
          ELSE /\ Front(transcript') = transcript
               /\ Last(transcript').source = "USER"
               /\ Last(transcript').text = text
               /\ Last(transcript').timestamp = now]_vars

\* one USER item absorbed a second partial text, and a later partial text,
\* 3000 ms or more after that item's timestamp, started the next USER item
C10_Witness ==
  \E i \in DOMAIN transcript :
    /\ i < Len(transcript)
    /\ transcript[i].source = "USER" /\ Len(transcript[i].text) > 1
    /\ transcript[i + 1].source = "USER"
    /\ transcript[i + 1].timestamp - transcript[i].timestamp >= 3000

LastDelimAt(t) ==
  IF Includes(t, Delim)
  THEN CHOOSE k \in DOMAIN t :
         t[k] = Delim /\ \A j \in DOMAIN t : j > k => t[j] # Delim
  ELSE 0

\* C11: cleanTranscript(t) is the trimmed part of t after the last
\* delimiter, holds no delimiter, and is empty when t has no delimiter
C11_CleanIsTrimmedTail ==
  clean.done =>
    /\ ~Includes(clean.out, Delim)
    /\ IF Includes(clean.in, Delim)
       THEN clean.out =
              Trim(SubSeq(clean.in, LastDelimAt(clean.in) + 1, Len(clean.in)))
       ELSE clean.out = <<>>

\* a text with two delimiters and a padded tail: 'a >> b >> _a' gives 'a'
C11_Witness ==
  /\ clean.done
  /\ Len(clean.in) = 4
  /\ clean.in[1] = Delim /\ clean.in[2] = Delim
  /\ clean.in[3] = Space /\ clean.in[4] = "a"
  /\ clean.out = <<"a">>

\* C12: no thought text (text a turn emitted before its delimiter) is
\* visible in the rendered transcript
C12_NoThoughtVisible ==
  \A k \in DOMAIN View : ~Includes(View[k].text, "t")

\* C13: an AI item whose visible remainder is empty renders no element
C13_EmptyAiSuppressed ==
  \A k \in DOMAIN View :
    (transcript[k].source = "AI" /\ cleanTranscript(transcript[k].text) = <<>>)
      => View[k] = NoElement

RECURSIVE StoredAiText(_)
StoredAiText(T) ==
  IF T = <<>> THEN <<>>
  ELSE (IF Head(T).source = "AI" THEN Head(T).text ELSE <<>>)
       \o StoredAiText(Tail(T))

\* the texts updateCurrentAiTranscript took (not whitespace only), in call
\* order
RECURSIVE TakenAiText(_)
TakenAiText(E) ==
  IF E = <<>> THEN <<>>
  ELSE (IF Head(E).kind = "aiText" /\ Trim(Head(E).text) # <<>>
        THEN Head(E).text ELSE <<>>)
       \o TakenAiText(Tail(E))

\* C14: the stored text of the AI items is the raw text taken, thought and
\* delimiter included, whatever is rendered
C14_StoredTextIsRaw == StoredAiText(transcript) = TakenAiText(effects)

\* an AI item stores 't >> r' while the window shows 'r'
C14_Witness ==
  /\ showTranscript
  /\ \E k \in DOMAIN transcript :
       /\ transcript[k].source = "AI"
       /\ transcript[k].text = <<"t", Delim, "r">>
       /\ View[k].text = <<"r">>

\* a call that was started and neither stopped nor closed
Active(k) ==
  sess[k].phase \in {"media", "connecting", "open"} /\ ~sess[k].stopped

\* C15: at most one session is connecting or open, and at most one
\* microphone stream is live
C15_OneSession ==
  /\ Cardinality({k \in DOMAIN sess : Active(k)}) <= 1
  /\ Cardinality({k \in DOMAIN sess : sess[k].stream}) <= 1

TornDownIn(X) ==
  /\ ~X.isConnected
  /\ X.micStreamRef = 0 /\ X.inputSourceRef = 0 /\ X.processorRef = 0
  /\ X.sessionRef = 0
  /\ X.videoMode = "NONE" /\ ~X.videoStreamRef /\ ~X.videoInterval

\* the stream, the source and the processor that X held are stopped or
\* disconnected in Y
Released(X, Y) ==
  /\ X.micStreamRef # 0 => ~Y.sess[X.micStreamRef].stream
  /\ X.inputSourceRef # 0 => ~Y.sess[X.inputSourceRef].source
  /\ X.processorRef # 0 => ~Y.sess[X.processorRef].proc

\* C16: from every state stopSession leaves the component torn down (what
\* it held is stopped or disconnected, every ref is null, the video is
\* off) and a second call changes nothing; every step that ran stopSession
\* ends in such a state
C16_StopTearsDown ==
  /\ [](/\ TornDownIn(stopSession(SessState))
        /\ Released(SessState, stopSession(SessState))
        /\ stopSession(stopSession(SessState)) = stopSession(SessState))
  /\ [][lastOp' = "stop" =>
          /\ TornDownIn(SessState')
          /\ Released(SessState, SessState')
          /\ stopSession(SessState)' = SessState']_vars

\* the disconnect button was used on an open session
C16_Witness ==
  /\ lastOp = "stop"
  /\ \E k \in DOMAIN sess :
       /\ sess[k].phase = "open" /\ sess[k].resolved /\ sess[k].stopped
       /\ ~sess[k].stream /\ ~sess[k].proc

\* C17: once stopSession has run, the component stays disconnected until
\* the next start request
C17_StaysStopped ==
  afterStop =>
    /\ ~isConnected
    /\ micStreamRef = 0 /\ processorRef = 0 /\ sessionRef = 0

\* C18: no payload is sent on a session after stopSession ran on it
C18_NoSendAfterStop ==
  \A i \in DOMAIN sent : ~sent[i].afterStop

RECURSIVE Deferred(_)
Deferred(k) ==
  IF k = 0 THEN <<>> ELSE Deferred(k - 1) \o sess[k].deferred

AudioTicksOf(log) ==
  LET a == SelectSeq(log, LAMBDA e : e.kind = "audio")
  IN [i \in DOMAIN a |-> a[i].tick]

\* the ticks of all audio frames, sent or waiting
Frames == AudioTicksOf(sent) \o Deferred(Len(sess))

\* C19: a capture tick that fires while the user has the mic muted emits
\* no frame
C19_MutedTickEmitsNothing ==
  [][(Len(ticks') = Len(ticks) + 1 /\ ~isMicOn) => Frames' = Frames]_vars

\* a tick sent a frame, the user muted, the next tick sent none
C19_Witness ==
  /\ ticks = <<TRUE, FALSE>>
  /\ Frames = <<1>>

\* C20: every audio frame belongs to one capture tick at which the mic was
\* enabled, and no two frames belong to the same tick
C20_FramesOfEnabledTicks ==
  /\ \A i \in DOMAIN Frames : Frames[i] \in DOMAIN ticks /\ ticks[Frames[i]]
  /\ \A i, j \in DOMAIN Frames : Frames[i] = Frames[j] => i = j

\* a tick fired while muted, the user unmuted, the next tick sent its frame
\* alone
C20_Witness ==
  /\ ticks = <<FALSE, TRUE>>
  /\ Frames = <<2>>

\* the step sent a typed text
TextSent == Len(sent') = Len(sent) + 1 /\ Last(sent').kind = "text"

\* the step appended a typed text to the transcript
TextStored == Len(effects') = Len(effects) + 1 /\ Last(effects').kind = "typed"

\* C21: a typed text is sent, and stored in the transcript, only while the
\* component is connected and the session handle is set to an open session
C21_TextOnlyWhenOpen ==
  [][(TextSent \/ TextStored) =>
       /\ isConnected
       /\ sessionRef # 0
       /\ sess[sessionRef].phase = "open"
       /\ Last(sent').session = sessionRef
       /\ TextSent /\ TextStored]_vars

\* a typed text was sent on the open session of the handle and stored
C21_Witness ==
  /\ Len(sent) = 1 /\ sent[1].kind = "text" /\ sent[1].session = 1
  /\ Len(transcript) = 1 /\ transcript[1].source = "USER"
  /\ isConnected /\ sessionRef = 1

\* C22: an accepted typed text appends a new complete USER item whose text
\* is the trimmed input
C22_TypedTextOwnItem ==
  [][TextStored =>
       /\ Len(transcript') = Len(transcript) + 1
       /\ Last(transcript').source = "USER"
       /\ Last(transcript').isComplete
       /\ Last(transcript').text = Last(effects').text]_vars

\* the step raised the demo turn counter to the limit
LockStep == turnCount < DEMO_LIMIT /\ turnCount' >= DEMO_LIMIT

\* the step ran the lockout timeout
LockoutStep == Len(lockTimers') < Len(lockTimers)

\* C23: the step that raises the counter to 10 persists the lock time and
\* arms the timeout 15000 ms ahead without touching the session; the
\* timeout (stopSession, onDemoLockout) runs no earlier than that, and it
\* does run
C23_LockoutAfterGrace ==
  /\ [][LockStep =>
          /\ lockTime' = now
          /\ lockTimers = <<>> /\ lockTimers' = <<now + LOCKOUT_GRACE_MS>>
          /\ SessState' = SessState
          /\ lastOp' = lastOp]_vars
  /\ [][LockoutStep =>
          /\ now >= Head(lockTimers)
          /\ TornDownIn(SessState')
          /\ lastOp' = "lockout"]_vars
  /\ (isDemoMode /\ turnCount >= DEMO_LIMIT) ~> (lastOp = "lockout")

\* the tenth turn completed at 1000 and the lockout ran at 16000 or later
C23_Witness ==
  /\ lastOp = "lockout"
  /\ turnCount = DEMO_LIMIT
  /\ lockTime = 1000
  /\ now >= lockTime + LOCKOUT_GRACE_MS
  /\ ~isConnected /\ sessionRef = 0


(***************************************************************************)
(* Playback cursor and flush                                               *)
(***************************************************************************)
\* C24 as stated: in every reachable state nextPlayTime is at least the
\* output clock's current time
C24_CursorNeverBehindClock == nextPlayTime >= now

\* a step in which playAudioChunk or clearAudioQueue has run
SchedulerStep ==
  \/ nextPlayTime' # nextPlayTime
  \/ flushes' # flushes
  \/ Len(sources') # Len(sources)

\* C24 amended: every step in which playAudioChunk or clearAudioQueue runs
\* leaves nextPlayTime at least the output clock's time of that step, and
\* the start of each new source is max(currentTime, nextPlayTime)
C24_CursorSetNotBehindClock ==
  [][SchedulerStep =>
       /\ nextPlayTime' >= now'
       /\ \A i \in DOMAIN sources' \ DOMAIN sources :
            sources'[i].start = Max(sources'[i].readAt, nextPlayTime)]_vars

\* the clock has run past the cursor after a flush at a later clock time,
\* and one source was scheduled at the clock and one at the cursor
C24_Witness ==
  /\ flushes > 0
  /\ nextPlayTime > 0
  /\ now > nextPlayTime
  /\ \E i \in DOMAIN sources : sources[i].start > sources[i].readAt

\* clearAudioQueue called once, and called twice, at the current clock time
FlushOnce == clearAudioQueue(SchedState, now)
FlushTwice == clearAudioQueue(FlushOnce, now)

\* the first source scheduled after a flush
FirstAfterFlush(i) ==
  /\ sources[i].epoch >= 1
  /\ \A j \in 1..(i - 1) : sources[j].epoch # sources[i].epoch

\* C25: a second clearAudioQueue at the same clock time leaves the queue,
\* the cursor and the sources as the first one left them (empty queue,
\* cursor at the clock), and the first source scheduled after a flush starts
\* at the clock time read by its playAudioChunk
C25_FlushIdempotent ==
  /\ FlushOnce.queue = <<>>
  /\ FlushOnce.npt = now
  /\ FlushTwice.queue = FlushOnce.queue
  /\ FlushTwice.npt = FlushOnce.npt
  /\ FlushTwice.sources = FlushOnce.sources
  /\ \A i \in DOMAIN sources :
       FirstAfterFlush(i) => sources[i].start = sources[i].readAt

\* two flushes at one clock time with nothing scheduled in between, a source
\* scheduled after them, and a queued source that a flush would stop
C25_Witness ==
  /\ flushes >= 2
  /\ now > 0
  /\ audioQueue # <<>>
  /\ \E i \in DOMAIN sources :
       /\ sources[i].epoch = flushes
       /\ FirstAfterFlush(i)
       /\ sources[i].readAt = now
  /\ \A i \in DOMAIN sources : sources[i].epoch # flushes - 1


(***************************************************************************)
(* Failed connects and remote closes                                       *)
(***************************************************************************)
\* call k was connecting and this step closed it: its connect failed
ConnectFailed(k) == sess[k].phase = "connecting" /\ sess'[k].phase = "closed"

\* C26: when the connect of a startSession call fails after its microphone
\* stream was acquired, that stream is stopped and the component is left
\* disconnected with a null session handle
C26_FailedConnectReleasesMic ==
  [][\A k \in DOMAIN sess :
       ConnectFailed(k) =>
         /\ ~sess'[k].stream
         /\ ~isConnected' /\ sessionRef' = 0 /\ micStreamRef' = 0]_vars

\* the remote end has closed or failed a channel since the last start request
RemoteDown == \E k \in DOMAIN sess : sess[k].remote

\* call k's channel is closed or failed by the remote end in this step
RemoteStep(k) == ~sess[k].remote /\ sess'[k].remote

\* C27: a remote close or error tears the component down (its own stream,
\* source and processor released, refs null, video off, disconnected), and
\* until the next start request the component stays disconnected
C27_RemoteCloseStaysDown ==
  /\ [][\A k \in DOMAIN sess :
          RemoteStep(k) =>
            /\ TornDownIn(SessState')
            /\ ~sess'[k].stream /\ ~sess'[k].source /\ ~sess'[k].proc]_vars
  /\ [](RemoteDown =>
          /\ ~isConnected
          /\ micStreamRef = 0 /\ inputSourceRef = 0 /\ processorRef = 0
          /\ sessionRef = 0)


(***************************************************************************)
(* Failed decodes                                                          *)
(***************************************************************************)
\* chunk n went through playAudioChunk without being scheduled
Dropped(n) ==
  /\ \E k \in DOMAIN effects :
       effects[k].kind = "aiAudio" /\ effects[k].msg = n
  /\ \A i \in DOMAIN sources : sources[i].chunk # n

\* a handler left playAudioChunk in this step and no source was created
DropStep ==
  /\ \E k \in DOMAIN effects' \ DOMAIN effects : effects'[k].kind = "aiAudio"
  /\ Len(sources') = Len(sources)

\* C28: a chunk whose decode fails is dropped alone: the step leaves the
\* cursor, the queue, the sources and the session as they were, and every
\* source is scheduled from the clock and the source scheduled before it,
\* whatever chunks were dropped in between
C28_FailedDecodeDropsChunkOnly ==
  /\ [][DropStep => UNCHANGED <<schedVars, sessRefs>>]_vars
  /\ [](\A i \in DOMAIN sources :
          IF i > 1 /\ sources[i - 1].epoch = sources[i].epoch
          THEN sources[i].start =
                 Max(sources[i].readAt,
                     sources[i - 1].start + sources[i - 1].duration)
          ELSE sources[i].start = sources[i].readAt)

\* a chunk was dropped, a later chunk was scheduled at the clock time of
\* its own call with the cursor set behind it, and the session is connected
C28_Witness ==
  /\ isConnected /\ sessionRef # 0
  /\ \E i \in DOMAIN sources :
       /\ \E n \in 1..(sources[i].chunk - 1) : Dropped(n)
       /\ sources[i].readAt > 0
       /\ sources[i].start = sources[i].readAt
       /\ nextPlayTime = sources[i].start + sources[i].duration


(***************************************************************************)
(* Replay                                                                  *)
(***************************************************************************)
\* the sources of replay r start back to back from the clock time of the
\* click
OwnTimeline(r) ==
  \A i \in DOMAIN replays[r].started :
    replays[r].started[i].start =
      IF i = 1 THEN replays[r].clickedAt
      ELSE replays[r].started[i - 1].start + replays[r].started[i - 1].duration

\* C29: every step of a replay (its click, each chunk it schedules or
\* skips) leaves the live cursor, the live queue and the live sources as
\* they were, and a replay schedules its chunks back to back from the clock
\* time of its click, wherever the live cursor is
C29_ReplayLeavesLiveAlone ==
  /\ [][replays' # replays => UNCHANGED schedVars]_vars
  /\ [](\A r \in DOMAIN replays : OwnTimeline(r))

\* a replay was clicked while live audio was scheduled ahead of the clock,
\* and has scheduled a chunk at the clock time of the click
C29_Witness ==
  \E r \in DOMAIN replays :
    /\ replays[r].started # <<>>
    /\ replays[r].started[1].start = replays[r].clickedAt
    /\ audioQueue # <<>>
    /\ \E i \in DOMAIN sources :
         /\ sources[i].readAt <= replays[r].clickedAt
         /\ sources[i].start + sources[i].duration > replays[r].clickedAt
         /\ nextPlayTime = sources[i].start + sources[i].duration


(***************************************************************************)
(* Video frames                                                            *)
(***************************************************************************)
\* the payloads sent in this step
NewlySent == {sent'[i] : i \in DOMAIN sent' \ DOMAIN sent}

\* C30: a video frame is sent only by a step taken while a camera or screen
\* mode is on, its stream is held and the session handle is non-null, and
\* it is sent on that handle: none while videoMode is NONE (so none after
\* stopVideo) and none while the handle is null
C30_FramesOnlyWhileVideoOn ==
  [][\A pl \in NewlySent :
       pl.kind = "video" =>
         /\ videoMode # "NONE" /\ videoStreamRef
         /\ sessionRef # 0 /\ pl.session = sessionRef]_vars

\* a frame was sent, then stopVideo ran while play() was pending, so that
\* the interval runs with the mode off and the handle set, and no further
\* frame was sent
C30_Witness ==
  /\ NFrames = 1
  /\ videoMode = "NONE" /\ videoInterval
  /\ sessionRef # 0 /\ isConnected

(***************************************************************************)
(* Resources after a stop                                                  *)
(***************************************************************************)
\* stopSession has run since the last start request and the component is
\* disconnected: the video buttons are not shown, so the user has not
\* started video since that stop
StoppedAndIdle == afterStop /\ ~isConnected

\* C31: once the session has been stopped, no camera or screen stream is
\* held and videoMode is NONE until the user starts video again, also when
\* an acquisition was pending at the stop
C31_NoVideoAfterStop ==
  StoppedAndIdle => (videoMode = "NONE" /\ ~videoStreamRef)

\* C32: after stopVideo or stopSession no frame-capture interval is active,
\* also when the attach timeout or the awaited play() completes afterwards
C32_NoTimerAfterStop ==
  (videoMode = "NONE" \/ StoppedAndIdle) => ~videoInterval

\* C33: whenever the component is disconnected after a stopSession, no
\* microphone stream acquired by an earlier startSession call has live tracks
C33_EveryMicReleased ==
  StoppedAndIdle => \A k \in DOMAIN sess : ~sess[k].stream

(***************************************************************************)
(* Shape of the transcript                                                 *)
(***************************************************************************)
\* T2 is T unchanged, T with its last item replaced, or T with one item
\* appended
AppendOnly(T, T2) ==
  \/ T2 = T
  \/ Len(T2) = Len(T) /\ T # <<>> /\ Front(T2) = Front(T)
  \/ Len(T2) = Len(T) + 1 /\ SubSeq(T2, 1, Len(T)) = T

\* the arguments the transcript operations are applied to
OpTexts == {NoText, Blank, <<"a">>}
OpChunks == {NoChunk, 1}

\* C34: every transcript operation (AI update, finalize, user transcript,
\* typed text) leaves the sequence unchanged, replaces only its last item or
\* appends one item, from every reachable transcript and in every step
C34_TranscriptAppendOnly ==
  /\ [](/\ \A tx \in OpTexts, ch \in OpChunks :
             AppendOnly(transcript,
                        updateCurrentAiTranscript(transcript, tx, ch, now))
        /\ AppendOnly(transcript, finalizeAiTranscript(transcript))
        /\ \A tx \in OpTexts \ {NoText} :
             AppendOnly(transcript, handleUserTranscript(transcript, tx, now)))
  /\ [][AppendOnly(transcript, transcript')]_vars

\* the transcript holds an AI item that is not the last and not complete,
\* after items were appended and the last one replaced
C34_Witness ==
  /\ Len(transcript) >= 3
  /\ \E i \in 1..(Len(transcript) - 1) :
       transcript[i].source = "AI" /\ ~transcript[i].isComplete
  /\ \E i \in DOMAIN transcript :
       transcript[i].source = "USER" /\ Len(transcript[i].text) >= 2
  /\ \E k \in DOMAIN effects : effects[k].kind = "typed"

C36_LockoutOnce ==
  /\ turnCount <= DEMO_LIMIT
  /\ Len(lockTimers) <= 1

\* C37: the view leaves APP for LOGIN only while the application is in
\* demo mode
C37_AdminNeverLockedOut ==
  [][(app.view = "APP" /\ app'.view = "LOGIN") => app.demo]_vars

\* C38: while the Generator is mounted in demo mode, turnCountRef equals
\* the persisted 'nsd_demo_count'
C38_CounterMatchesStorage ==
  (Mounted /\ isDemoMode) => turnCount = storedCount

\* C39: a USER item keeps the timestamp of its creation (its id is
\* Date.now() at creation) when a partial text is appended to it, and a user
\* partial text that finds a tail USER item starts a new item exactly when it
\* arrives 3000 ms or more after that item was created
C39_WindowFromCreation ==
  /\ [](\A i \in DOMAIN transcript :
          transcript[i].source = "USER" =>
            transcript[i].timestamp = transcript[i].id)
  /\ [][(UserStep /\ transcript # <<>> /\ Last(transcript).source = "USER") =>
         IF now - Last(transcript).id >= USER_WINDOW_MS
         THEN /\ Len(transcript') = Len(transcript) + 1
              /\ Last(transcript').id = now
         ELSE /\ Len(transcript') = Len(transcript)
              /\ Last(transcript').id = Last(transcript).id
              /\ Last(transcript').timestamp = Last(transcript).timestamp]_vars

\* a USER item took a later partial text after the instant of its creation
\* (its text is longer than one event's), and the next USER item was started
\* exactly 3000 ms after the first one was created
C39_Witness ==
  /\ Len(transcript) = 2
  /\ Len(effects) = 3
  /\ \A k \in DOMAIN effects : effects[k].kind = "user"
  /\ transcript[1].source = "USER" /\ Len(transcript[1].text) = 2
  /\ transcript[2].source = "USER"
  /\ transcript[2].id = transcript[1].id + USER_WINDOW_MS

\* C40: the items of the transcript have pairwise distinct ids
C40_DistinctIds ==
  \A i, j \in DOMAIN transcript :
    i # j => transcript[i].id # transcript[j].id

====
